---- MODULE Spec2Model ----
(***************************************************************************)
(* Model of avoidance::WaypointGenerator                                   *)
(* (local_planner/src/nodes/waypoint_generator.cpp).                       *)
(*                                                                         *)
(* Numbers.  The program computes in float/double; the model computes in   *)
(* fixed point: a length, a coordinate or a speed x is the integer         *)
(* x * UNIT (UNIT = 100, so 0.01 is 1), an angle is in whole degrees and a *)
(* time is in milliseconds.  Every division rounds toward zero (Div).      *)
(* A square root is the integer square root (ISqrt).                       *)
(***************************************************************************)
EXTENDS Integers, Sequences, FiniteSets, TLC

\* fixed-point scale: 1.0 is UNIT
UNIT == 100
\* milliseconds in a second (ros::Duration::toSec)
MSEC == 1000

Abs(x) == IF x < 0 THEN -x ELSE x
Sgn(x) == IF x < 0 THEN -1 ELSE IF x > 0 THEN 1 ELSE 0
Min(a, b) == IF a < b THEN a ELSE b
Max(a, b) == IF a > b THEN a ELSE b
\* division rounding toward zero (b > 0)
Div(a, b) == Sgn(a) * (Abs(a) \div b)

RECURSIVE SqrtSearch(_, _, _)
SqrtSearch(n, lo, hi) ==
  IF lo >= hi THEN lo
  ELSE LET mid == (lo + hi + 1) \div 2
       IN IF mid * mid <= n THEN SqrtSearch(n, mid, hi)
          ELSE SqrtSearch(n, lo, mid - 1)
\* floor of the square root of n, 0 <= n < 46340^2
ISqrt(n) == SqrtSearch(n, 0, 46340)

(***************************************************************************)
(* Eigen::Vector3f / geometry_msgs::Point as <<x, y, z>>.                  *)
(***************************************************************************)
Vec(x, y, z) == <<x, y, z>>
Zero3 == <<0, 0, 0>>
Add(a, b) == <<a[1] + b[1], a[2] + b[2], a[3] + b[3]>>
Sub(a, b) == <<a[1] - b[1], a[2] - b[2], a[3] - b[3]>>
CwiseAbs(a) == <<Abs(a[1]), Abs(a[2]), Abs(a[3])>>
SquaredNorm(a) == a[1] * a[1] + a[2] * a[2] + a[3] * a[3]
Norm(a) == ISqrt(SquaredNorm(a))
\* v * s for a fixed-point scalar s
Scale(v, s) == <<Div(v[1] * s, UNIT), Div(v[2] * s, UNIT), Div(v[3] * s, UNIT)>>
\* normalisation falling back to the x axis for a vector of norm 0
NormalizedOrAxis(v) ==
  LET n == Norm(v)
  IN IF SquaredNorm(v) = 0 THEN <<UNIT, 0, 0>>
     ELSE <<Div(v[1] * UNIT, n), Div(v[2] * UNIT, n), Div(v[3] * UNIT, n)>>
\* Eigen normalized()/normalize(): v / v.norm(); a vector of norm 0 is left
\* as it is (Eigen 3.3: "if the input vector is too small, returns a copy")
Normalized(v) ==
  LET n == Norm(v)
  IN IF SquaredNorm(v) = 0 THEN v
     ELSE <<Div(v[1] * UNIT, n), Div(v[2] * UNIT, n), Div(v[3] * UNIT, n)>>

(***************************************************************************)
(* Angles.  SinTab[k + 1] = 10000 * sin(k degrees), k = 0..90.             *)
(***************************************************************************)
SinTab ==
  << 0, 175, 349, 523, 698, 872, 1045, 1219, 1392, 1564, 1736, 1908, 2079,
     2250, 2419, 2588, 2756, 2924, 3090, 3256, 3420, 3584, 3746, 3907,
     4067, 4226, 4384, 4540, 4695, 4848, 5000, 5150, 5299, 5446, 5592,
     5736, 5878, 6018, 6157, 6293, 6428, 6561, 6691, 6820, 6947, 7071,
     7193, 7314, 7431, 7547, 7660, 7771, 7880, 7986, 8090, 8192, 8290,
     8387, 8480, 8572, 8660, 8746, 8829, 8910, 8988, 9063, 9135, 9205,
     9272, 9336, 9397, 9455, 9511, 9563, 9613, 9659, 9703, 9744, 9781,
     9816, 9848, 9877, 9903, 9925, 9945, 9962, 9976, 9986, 9994, 9998,
     10000 >>
\* 10000 * sin and cos of a whole number of degrees
SinDeg(a) ==
  LET m == a % 360
  IN IF m <= 90 THEN SinTab[m + 1]
     ELSE IF m <= 180 THEN SinTab[180 - m + 1]
     ELSE IF m <= 270 THEN -SinTab[m - 180 + 1]
     ELSE -SinTab[360 - m + 1]
CosDeg(a) == SinDeg(a + 90)

\* the angle of (x, y), x >= 0, y >= 0, from the x axis, rounded down to a
\* whole degree: the largest k with tan k <= y / x
TanAtMost(k, y, x) == SinDeg(k) * x <= CosDeg(k) * y
QuadrantDeg(y, x) ==
  CHOOSE k \in 0..90 : TanAtMost(k, y, x) /\ (k = 90 \/ ~TanAtMost(k + 1, y, x))
\* whether that angle is a whole number of degrees
QuadrantExact(y, x) ==
  SinDeg(QuadrantDeg(y, x)) * x = CosDeg(QuadrantDeg(y, x)) * y
\* atan2(y, x) in degrees, in (-180, 180], cut to a whole degree toward zero
\* (the conversion of the float angle to int); atan2(0, 0) = 0
Atan2Deg(y, x) ==
  IF x = 0 /\ y = 0 THEN 0
  ELSE LET a == QuadrantDeg(Abs(y), Abs(x))
           up == IF x >= 0 THEN a
                 ELSE IF QuadrantExact(Abs(y), Abs(x)) THEN 180 - a
                 ELSE 180 - a - 1
       IN IF y >= 0 THEN up ELSE -up

\* an angle in degrees wrapped to (-180, 180]
WrapDeg(a) ==
  LET m == a % 360
  IN IF m > 180 THEN m - 360 ELSE m


(***************************************************************************)
(* Functions of common.h / planner_functions.h whose bodies are not part   *)
(* of the sources at hand; modelled from their documentation.              *)
(***************************************************************************)
\* histogram resolution in degrees (ALPHA_RES)
ALPHA_RES == 6
\* number of azimuth cells
GRID_LENGTH_Z == 360 \div ALPHA_RES
\* horizontal field of view in degrees (h_FOV_, set by setFOV)
H_FOV == 60

\* azimuthAnglefromCartesian: bearing of position seen from origin, in degrees
\* from the positive y axis in (-180, 180]; 0 when the two coincide.  The
\* caller stores the float in an int.
azimuthAnglefromCartesian(position, origin) ==
  Atan2Deg(position[1] - origin[1], position[2] - origin[2])
\* elevation of position seen from origin, in degrees
elevationAnglefromCartesian(position, origin) ==
  LET d == Sub(position, origin)
  IN Atan2Deg(d[3], ISqrt(d[1] * d[1] + d[2] * d[2]))
\* azimuthAngletoIndex: the cell of an azimuth in [-180, 180]; 180 wraps to
\* cell 0; an angle out of range or a bad resolution gives 0
azimuthAngletoIndex(z, res) ==
  IF res <= 0 \/ 360 % res # 0 \/ z < -180 \/ z > 180 THEN 0
  ELSE ((z + 180) \div res) % (360 \div res)
\* calculateFOV: the azimuth cells within half the horizontal field of view
\* of the cell the vehicle is heading to (yaw is measured from the x axis,
\* the azimuth from the y axis)
calculateFOV(h_FOV, yaw) ==
  LET c == azimuthAngletoIndex(WrapDeg(90 - yaw), ALPHA_RES)
      w == (h_FOV \div 2) \div ALPHA_RES
  IN {(c + k) % GRID_LENGTH_Z : k \in (-w)..w}
\* nextYaw: the yaw from the pose u toward the point v
nextYaw(u, v) == Atan2Deg(v[2] - u[2], v[1] - u[1])
\* fromPolarToCartesian: the point at elevation e, azimuth z and radius r from pos
fromPolarToCartesian(e, z, r, pos) ==
  LET h == Div(r * CosDeg(e), 10000)
  IN <<pos[1] + Div(h * SinDeg(z), 10000),
       pos[2] + Div(h * CosDeg(z), 10000),
       pos[3] + Div(r * SinDeg(e), 10000)>>
\* velocityLinear: the speed after ramping v_old for `elapsed` ms at `slope`,
\* never above max_vel
velocityLinear(max_vel, slope, v_old, elapsed) ==
  Min(max_vel, v_old + Div(slope * elapsed, MSEC))
\* getAngularVelocity: proportional controller on the wrapped yaw error
getAngularVelocity(desired_yaw, curr_yaw) ==
  Div(WrapDeg(desired_yaw - curr_yaw), 2)
\* getDirectionFromTree: whether a direction can be read from the path nodes
treeAvailable(path_node_positions) == Len(path_node_positions) > 0
\* ... and that direction <<elevation, azimuth>>, seen from position
treeDirection(path_node_positions, position) ==
  <<elevationAnglefromCartesian(path_node_positions[1], position),
    azimuthAnglefromCartesian(path_node_positions[1], position)>>
\* createPoseMsg
createPoseMsg(waypt, yaw) == [position |-> waypt, yaw |-> yaw]

(***************************************************************************)
(* Parameters (param_, the jerk limits): configuration values.             *)
(***************************************************************************)
goal_acceptance_radius_in == 50
goal_acceptance_radius_out == 150
factor_close_to_goal_start_speed_limitation == 300
factor_close_to_goal_stop_speed_limitation == 400
max_speed_close_to_goal_factor == 10
min_speed_close_to_goal == 50
\* the jerk limits as shipped: 20 and 2 (they are members, set from the
\* node's parameters, and so part of the state below)
DefaultJerkLimits == [max_jerk_limit |-> 20 * UNIT, min_jerk_limit |-> 2 * UNIT]
\* dt used when the clock did not advance: 0.004 s
DEFAULT_DT == 4

hover == "hover"
costmap == "costmap"
tryPath == "tryPath"
direct == "direct"
reachHeight == "reachHeight"
goBack == "goBack"
waypoint_choice == {hover, costmap, tryPath, direct, reachHeight, goBack}


(***************************************************************************)
(* State of a WaypointGenerator, under the names of its members, and the   *)
(* ROS clock (ros::Time::now()), in milliseconds.                          *)
(***************************************************************************)
VARIABLES
  clock,
  pose_, curr_vel_, goal_, update_time_, curr_yaw_, z_FOV_idx_,
  curr_vel_magnitude_,
  planner_info_, output_,
  last_time_, current_time_, velocity_time_,
  hover_position_, last_wp_type_, last_position_waypoint_, last_yaw_,
  last_velocity_,
  reached_goal_, yaw_reached_goal_, limit_speed_close_to_goal_,
  waypoint_outside_FOV_, only_yawed_, speed_, new_yaw_,
  max_jerk_limit_param_, min_jerk_limit_param_,
  ticks, hist

vehicle_vars ==
  <<pose_, curr_vel_, goal_, update_time_, curr_yaw_, z_FOV_idx_,
    curr_vel_magnitude_>>
memory_vars ==
  <<last_time_, current_time_, velocity_time_, hover_position_,
    last_wp_type_, last_position_waypoint_, last_yaw_, last_velocity_,
    yaw_reached_goal_, waypoint_outside_FOV_, only_yawed_, speed_, new_yaw_>>
param_vars == <<max_jerk_limit_param_, min_jerk_limit_param_>>
vars ==
  <<clock, vehicle_vars, planner_info_, output_, memory_vars, reached_goal_,
    limit_speed_close_to_goal_, param_vars, ticks, hist>>

(***************************************************************************)
(* goFast, lines 130-139: the raw goal one unit from the pose toward the   *)
(* goal.                                                                   *)
(***************************************************************************)
goFastGoto(position, goal) == Add(position, Normalized(Sub(goal, position)))

(***************************************************************************)
(* backOff, lines 141-149: half a unit away from the back-off point in the *)
(* horizontal plane, at the altitude of back_off_start_point.              *)
(***************************************************************************)
\* the retreat with the vertical offset left in
backOffDirSloped(position, back_off_point) ==
  Scale(Normalized(Sub(position, back_off_point)), UNIT \div 2)
backOffDir(position, back_off_point) ==
  LET d == Sub(position, back_off_point)
  IN Scale(Normalized(<<d[1], d[2], 0>>), UNIT \div 2)
backOffGoto(position, back_off_point, back_off_start_point) ==
  LET g == Add(position, backOffDir(position, back_off_point))
  IN <<g[1], g[2], back_off_start_point[3]>>

\* withinGoalRadius leaving the goal at the inner radius already
withinGoalRadiusInnerOnly(sqrd_dist, reached) ==
  sqrd_dist < goal_acceptance_radius_in * goal_acceptance_radius_in

(***************************************************************************)
(* withinGoalRadius, lines 174-188: the new value of reached_goal_.        *)
(***************************************************************************)
withinGoalRadius(sqrd_dist, reached) ==
  IF sqrd_dist < goal_acceptance_radius_in * goal_acceptance_radius_in
  THEN TRUE
  ELSE IF sqrd_dist > goal_acceptance_radius_out * goal_acceptance_radius_out
  THEN FALSE
  ELSE reached
\* ... and of yaw_reached_goal_ (lines 177-181)
yawReachedGoal(sqrd_dist, reached, yaw_reached, pose_yaw) ==
  IF /\ sqrd_dist < goal_acceptance_radius_in * goal_acceptance_radius_in
     /\ ~reached
  THEN pose_yaw
  ELSE yaw_reached

(***************************************************************************)
(* reachGoalAltitudeFirst, lines 191-211.                                  *)
(***************************************************************************)
\* lines 192-193: the hold position at the current altitude + 0.5
altitudeTarget(position, offboard_position) ==
  <<offboard_position[1], offboard_position[2], position[3] + UNIT \div 2>>
\* lines 203-210: a step of min_speed toward it
reachGoalAltitudeFirstGoto(position, offboard_position, min_speed) ==
  LET to_wp == Sub(altitudeTarget(position, offboard_position), position)
      dir == IF SquaredNorm(to_wp) > 1 THEN Normalized(to_wp) ELSE to_wp
  IN Add(position, Scale(dir, min_speed))
\* lines 196-200: no yaw change when the goal is overhead
reachGoalAltitudeFirstYaw(position, goal, yaw, curr_yaw) ==
  LET diff == CwiseAbs(Sub(goal, position))
  IN IF diff[1] < UNIT /\ diff[2] < UNIT THEN curr_yaw ELSE yaw


(***************************************************************************)
(* adaptSpeed, lines 250-342, stage by stage.                              *)
(***************************************************************************)
\* the two bounds the wrong way round
speedEnvelopeSwapped(obstacle_ahead, min_speed, max_speed) ==
  IF ~obstacle_ahead THEN min_speed ELSE max_speed
\* lines 254-264: the bound the speed ramps to
speedEnvelope(obstacle_ahead, min_speed, max_speed) ==
  IF ~obstacle_ahead THEN max_speed ELSE min_speed
\* lines 254-264: cap at the bound, then ramp toward it
baseSpeed(speed, info, since_last_velocity) ==
  LET bound == speedEnvelope(info.obstacle_ahead, info.min_speed, info.max_speed)
  IN velocityLinear(bound, info.velocity_sigmoid_slope, Min(speed, bound),
                    since_last_velocity)
\* lines 267-270: the azimuth cell of the candidate point
candidateIndex(adapted_goto_position, position) ==
  azimuthAngletoIndex(azimuthAnglefromCartesian(adapted_goto_position, position),
                      ALPHA_RES)
\* lines 278-286: the smallest |cell - z_index| over the visible cells, 100
\* when none is nearer
indexDistance(z_FOV_idx, z_index) ==
  LET ds == {Abs(c - z_index) : c \in z_FOV_idx} \cup {100}
  IN CHOOSE d \in ds : \A e \in ds : d <= e
\* lines 287-290: the speed scaled down by the angle to the field of view
fovScaledSpeed(speed, ind_dist) ==
  LET hover_angle == 30
      angle_diff == Min(Abs(ALPHA_RES * ind_dist), hover_angle)
  IN Div(speed * (hover_angle - angle_diff), hover_angle)
\* lines 272-296: whether the slowdown applies
fovSlowdownApplies(z_FOV_idx, z_index, reach_altitude, reached) ==
  z_index \notin z_FOV_idx /\ reach_altitude /\ ~reached
\* lines 300-303: the distance flown since the state was updated
delayCompensation(since_update, vel_magnitude) ==
  Div(since_update * vel_magnitude, MSEC)
\* the limit following the start distance alone
limitSpeedCloseToGoalNoBand(pos_to_goal, vel_magnitude, limit) ==
  LET start == Div(factor_close_to_goal_start_speed_limitation * vel_magnitude, UNIT)
  IN pos_to_goal[1] < start /\ pos_to_goal[2] < start
\* lines 307-322: the new value of limit_speed_close_to_goal_
limitSpeedCloseToGoal(pos_to_goal, vel_magnitude, limit) ==
  LET start == Div(factor_close_to_goal_start_speed_limitation * vel_magnitude, UNIT)
      stop == Div(factor_close_to_goal_stop_speed_limitation * vel_magnitude, UNIT)
  IN IF pos_to_goal[1] < start /\ pos_to_goal[2] < start THEN TRUE
     ELSE IF pos_to_goal[1] > stop \/ pos_to_goal[2] > stop THEN FALSE
     ELSE limit
\* lines 323-327: the speed limited close to the goal
closeToGoalSpeed(speed, pos_to_goal, limit) ==
  IF limit
  THEN Max(Min(speed, Div(max_speed_close_to_goal_factor * Norm(pos_to_goal), UNIT)),
           min_speed_close_to_goal)
  ELSE speed
\* lines 330-337: the candidate point at `speed` from the pose
speedAdaptedGoto(adapted_goto_position, position, speed) ==
  LET to_wp == Sub(adapted_goto_position, position)
      dir == IF SquaredNorm(to_wp) > 1 THEN Normalized(to_wp) ELSE to_wp
  IN Add(position, Scale(dir, speed))

\* adaptSpeed as a whole: the members and the output field it writes
adaptSpeed(goto) ==
  LET info == planner_info_
      position == pose_.position
      v0 == baseSpeed(speed_, info, clock - velocity_time_)
      z_index == candidateIndex(goto, position)
      outside == z_index \notin z_FOV_idx_
      slow == fovSlowdownApplies(z_FOV_idx_, z_index, info.reach_altitude,
                                 reached_goal_)
      v1 == IF slow THEN fovScaledSpeed(v0, indexDistance(z_FOV_idx_, z_index))
            ELSE v0
      v2 == v1 + delayCompensation(clock - update_time_, curr_vel_magnitude_)
      pos_to_goal == CwiseAbs(Sub(goal_, position))
      limit == limitSpeedCloseToGoal(pos_to_goal, curr_vel_magnitude_,
                                     limit_speed_close_to_goal_)
      v3 == closeToGoalSpeed(v2, pos_to_goal, limit)
  IN [ envelope |-> v0,
       scaled |-> v1,
       speed |-> v3,
       waypoint_outside_FOV |-> outside,
       only_yawed |-> IF slow THEN v1 < 1 ELSE only_yawed_,
       limit_speed_close_to_goal |-> limit,
       adapted_goto_position |-> speedAdaptedGoto(goto, position, v3) ]

(***************************************************************************)
(* smoothWaypoint, lines 213-248.  With n = (adapted - last waypoint)      *)
(* - (2 v - last v) dt, the code's jerk_diff is n / dt^3, so it exceeds    *)
(* max_jerk exactly when |n| exceeds max_jerk dt^3, and the clamped        *)
(* setpoint is last waypoint + (2 v - last v) dt + max_jerk dt^3 n / |n|;  *)
(* the unclamped setpoint is the adapted point.                            *)
(***************************************************************************)
\* a quantity per second times dt milliseconds
TimesDt(a, dt) == Div(a * dt, MSEC)
\* lines 226-232: the jerk bound for the horizontal velocity v
maxJerk(vel_cur_xy) ==
  IF min_jerk_limit_param_ >= 1
  THEN Max(Div(max_jerk_limit_param_ * ISqrt(vel_cur_xy[1] * vel_cur_xy[1]
                                              + vel_cur_xy[2] * vel_cur_xy[2]), UNIT),
           min_jerk_limit_param_)
  ELSE max_jerk_limit_param_
\* the displacement a smoother bounding the acceleration's change, not the
\* jerk, would allow: max_jerk dt^2
jerkStepPerDtSquared(max_jerk, dt) == TimesDt(TimesDt(max_jerk, dt), dt)
\* max_jerk dt^3: the displacement the bound allows within dt
jerkStep(max_jerk, dt) == TimesDt(TimesDt(TimesDt(max_jerk, dt), dt), dt)
\* line 234: whether the jerk is clamped.  max_jerk > 0.001 is max_jerk >= 1
\* at this resolution; n stays below 40000 in every coordinate, so an allowed
\* displacement of 40000 or more is never exceeded (and its square is not
\* taken)
jerkExceeded(n, max_jerk, dt) ==
  LET j == jerkStep(max_jerk, dt)
  IN max_jerk >= 1 /\ j < 40000 /\ n[1] * n[1] + n[2] * n[2] > j * j
smoothWaypoint(adapted, dt) ==
  LET v == <<curr_vel_[1], curr_vel_[2]>>
      l == last_position_waypoint_.position
      drift == <<TimesDt(2 * v[1] - last_velocity_[1], dt),
                 TimesDt(2 * v[2] - last_velocity_[2], dt)>>
      n == <<adapted[1] - l[1] - drift[1], adapted[2] - l[2] - drift[2]>>
      mj == maxJerk(v)
      j == jerkStep(mj, dt)
      len == ISqrt(n[1] * n[1] + n[2] * n[2])
  IN IF jerkExceeded(n, mj, dt)
     THEN <<l[1] + drift[1] + Div(j * n[1], len),
            l[2] + drift[2] + Div(j * n[2], len), adapted[3]>>
     ELSE adapted


(***************************************************************************)
(* transformPositionToVelocityWaypoint, lines 161-171.                     *)
(***************************************************************************)
\* the waypoint itself as the command
velocityWaypointAbsolute(position_waypoint, position, yaw, curr_yaw) ==
  [ linear |-> position_waypoint.position,
    angular |-> <<0, 0, getAngularVelocity(yaw, curr_yaw)>> ]
velocityWaypoint(position_waypoint, position, yaw, curr_yaw) ==
  [ linear |-> Sub(position_waypoint.position, position),
    angular |-> <<0, 0, getAngularVelocity(yaw, curr_yaw)>> ]

(***************************************************************************)
(* getPathMsg, lines 345-386, for the raw goal `goto` and the clock        *)
(* readings of this tick: every member and output field it writes.         *)
(***************************************************************************)
\* the difference of the clock readings taken as it is
tickIntervalUnguarded(current_time, last_time) == current_time - last_time
\* lines 348-349
tickInterval(current_time, last_time) ==
  IF current_time - last_time > 0 THEN current_time - last_time ELSE DEFAULT_DT
\* the smoother run whatever reach_altitude is
overrideOrSmoothAlways(reach_altitude, climb, smoothed) == smoothed
\* lines 356-369: the target after the altitude-first override or the smoother
overrideOrSmooth(reach_altitude, climb, smoothed) ==
  IF ~reach_altitude THEN climb ELSE smoothed
\* the target kept as it is at the goal
finalTargetKept(reached, goal, target) == target
\* lines 371-374: the target collapses to the goal once it is reached
finalTarget(reached, goal, target) == IF reached THEN goal ELSE target
\* lines 376-378: the yaw is pinned once the goal is reached
finalYaw(reached, yaw_reached, yaw) == IF reached THEN yaw_reached ELSE yaw
getPathMsg(goto, current_time, last_time) ==
  LET info == planner_info_
      position == pose_.position
      dt == tickInterval(current_time, last_time)
      yaw0 == nextYaw(position, goto)
      a == adaptSpeed(goto)
      climb == reachGoalAltitudeFirstGoto(position, info.offboard_pose, info.min_speed)
      yaw1 == IF ~info.reach_altitude
              THEN reachGoalAltitudeFirstYaw(position, goal_, yaw0, curr_yaw_)
              ELSE yaw0
      target == overrideOrSmooth(info.reach_altitude, climb,
                                 smoothWaypoint(a.adapted_goto_position, dt))
      sqrd_dist == SquaredNorm(Sub(goal_, position))
      reached == withinGoalRadius(sqrd_dist, reached_goal_)
      yaw_reached == yawReachedGoal(sqrd_dist, reached_goal_, yaw_reached_goal_,
                                    pose_.yaw)
      yaw2 == finalYaw(reached, yaw_reached, yaw1)
      wp == createPoseMsg(finalTarget(reached, goal_, target), yaw2)
  IN [ dt |-> dt,
       adapt |-> a,
       goto_position |-> IF ~info.reach_altitude THEN climb ELSE goto,
       adapted_goto_position |->
         IF ~info.reach_altitude THEN climb ELSE a.adapted_goto_position,
       smoothed_goto_position |-> wp.position,
       position_waypoint |-> wp,
       velocity_waypoint |-> velocityWaypoint(wp, position, yaw2, curr_yaw_),
       reached_goal |-> reached,
       yaw_reached_goal |-> yaw_reached,
       new_yaw |-> yaw2 ]

(***************************************************************************)
(* calculateWaypoint, lines 14-89: the dispatch on the waypoint type.      *)
(***************************************************************************)
\* the tree used whatever its age
useTreeOfAnyAge(tree_available, obstacle_ahead, sqrd_dist_goal, since_last_path) ==
  /\ tree_available
  /\ (obstacle_ahead \/ sqrd_dist_goal > (4 * UNIT) * (4 * UNIT))
\* lines 48-54: whether the tree direction is used; dist_goal > 4.0 is
\* decided on the squared distance, exact for fixed-point coordinates
useTree(tree_available, obstacle_ahead, sqrd_dist_goal, since_last_path) ==
  /\ tree_available
  /\ (obstacle_ahead \/ sqrd_dist_goal > (4 * UNIT) * (4 * UNIT))
  /\ since_last_path < 5 * MSEC
useTreeNow ==
  useTree(treeAvailable(planner_info_.path_node_positions),
          planner_info_.obstacle_ahead,
          SquaredNorm(Sub(goal_, pose_.position)),
          clock - planner_info_.last_path_time)
\* the hover target following the vehicle
hoverPositionFollowing(last_wp_type, position, hover_position) == position
\* lines 27-29: the hover target
hoverPosition(last_wp_type, position, hover_position) ==
  IF last_wp_type # hover THEN position ELSE hover_position
\* lines 25-83: the raw goal of the tick
rawGoto(type) ==
  CASE type = hover ->
         hoverPosition(last_wp_type_, pose_.position, hover_position_)
    [] type = costmap ->
         fromPolarToCartesian(planner_info_.costmap_direction_e,
                              planner_info_.costmap_direction_z, UNIT,
                              planner_info_.pose)
    [] type = tryPath ->
         IF useTreeNow
         THEN LET p == treeDirection(planner_info_.path_node_positions,
                                     pose_.position)
              IN fromPolarToCartesian(p[1], p[2], UNIT, planner_info_.pose)
         ELSE goFastGoto(pose_.position, goal_)
    [] type \in {direct, reachHeight} -> goFastGoto(pose_.position, goal_)
    [] type = goBack ->
         backOffGoto(pose_.position, planner_info_.back_off_point,
                     planner_info_.back_off_start_point)
\* lines 19, 62: the waypoint type reported
outputType(type) == IF type = tryPath /\ ~useTreeNow THEN direct ELSE type


(***************************************************************************)
(* The operations.                                                         *)
(***************************************************************************)
\* bound on the number of getWaypoints calls
MaxTicks == 2
\* bound on the number of clock steps
MaxClockSteps == 1
\* the clock reading at construction time and the step of the clock, ms
ClockStart == 5 * MSEC
ClockStep == MSEC \div 2

\* updateState leaving the planner's waypoint type alone
stayOverrideIgnored(info, stay) == info
\* lines 124-126: stay forces the waypoint type hover
stayOverride(info, stay) ==
  IF stay THEN [info EXCEPT !.waypoint_type = hover] ELSE info
\* any difference of the goals taken for a move
goalChangedAtAll(old_goal, goal) == old_goal # goal
\* lines 100-103: whether the goal moved, which resets the sticky flags
goalChanged(old_goal, goal) ==
  SquaredNorm(Sub(old_goal, goal)) > (UNIT \div 10) * (UNIT \div 10)

\* updateState, lines 96-127, called at time t = now
UpdateState(act_pose, goal, vel, stay) ==
  /\ ticks < MaxTicks
  /\ ~hist.pushed_state
  /\ IF goalChanged(goal_, goal)
     THEN reached_goal_' = FALSE /\ limit_speed_close_to_goal_' = FALSE
     ELSE UNCHANGED <<reached_goal_, limit_speed_close_to_goal_>>
  /\ update_time_' = clock
  /\ pose_' = act_pose
  /\ curr_vel_' = vel
  /\ goal_' = goal
  /\ curr_yaw_' = act_pose.yaw
  /\ z_FOV_idx_' = calculateFOV(H_FOV, act_pose.yaw)
  /\ curr_vel_magnitude_' = Norm(vel)
  /\ planner_info_' = stayOverride(planner_info_, stay)
  /\ hist' = [hist EXCEPT !.ticked = FALSE,
                       !.pushed_state = TRUE,
                       !.old_goal = goal_,
                       !.stay_after = hist.stay_after \/ stay]
  /\ UNCHANGED <<clock, output_, memory_vars, param_vars, ticks>>

\* a hover forced by stay kept through the next directive
acceptDirectiveUnlessHover(info, input) ==
  IF info.waypoint_type = hover THEN [input EXCEPT !.waypoint_type = hover]
  ELSE input
\* line 394: the directive replaces the stored one whole
acceptDirective(info, input) == input

\* setPlannerInfo, lines 393-395
SetPlannerInfo(input) ==
  /\ ticks < MaxTicks
  /\ ~hist.pushed_info
  /\ planner_info_' = acceptDirective(planner_info_, input)
  /\ hist' = [hist EXCEPT !.ticked = FALSE,
                       !.pushed_info = TRUE,
                       !.directive_type = input.waypoint_type,
                       !.stay_after = FALSE]
  /\ UNCHANGED <<clock, vehicle_vars, output_, memory_vars, reached_goal_,
                 limit_speed_close_to_goal_, param_vars, ticks>>

\* what the tick leaves in hist: the members as they were before it
beforeTick ==
  [ reached_goal |-> reached_goal_,
    yaw_reached_goal |-> yaw_reached_goal_,
    limit_speed_close_to_goal |-> limit_speed_close_to_goal_,
    only_yawed |-> only_yawed_,
    speed |-> speed_,
    velocity_time |-> velocity_time_,
    last_wp_type |-> last_wp_type_,
    last_yaw |-> last_yaw_,
    last_velocity |-> last_velocity_,
    hover_position |-> hover_position_,
    output |-> output_ ]

\* what the tick records in hist beside that: the type of the tick before
\* it, the pose at the first tick of the present run of hover ticks and
\* whether that run began with the first tick of all, the yaw at the tick
\* reached_goal_ last became true, and the raw goal of the tick
histAfterTick(type, reached, raw) ==
  LET enters == type = hover /\ hist.prev_type # hover
  IN [hist EXCEPT !.ticked = TRUE,
                  !.pushed_state = FALSE,
                  !.pushed_info = FALSE,
                  !.before = beforeTick,
                  !.prev_type = type,
                  !.hover_start = IF enters THEN pose_.position ELSE @,
                  !.hover_first = IF enters THEN hist.prev_type = "none" ELSE @,
                  !.reach_yaw = IF ~reached_goal_ /\ reached THEN pose_.yaw ELSE @,
                  !.raw = raw]

\* goBack falling through to getPathMsg as well
usesPathMsgAlways(type) == TRUE
\* lines 25-83: every type but goBack ends in getPathMsg
usesPathMsg(type) == type # goBack

\* getWaypoints, lines 388-391, in a type that runs getPathMsg
TickPathMsg ==
  LET type == planner_info_.waypoint_type
  IN \E r \in {getPathMsg(rawGoto(type), clock, current_time_)} :
     /\ output_' = [ waypoint_type |-> outputType(type),
                     goto_position |-> r.goto_position,
                     adapted_goto_position |-> r.adapted_goto_position,
                     smoothed_goto_position |-> r.smoothed_goto_position,
                     position_waypoint |-> r.position_waypoint,
                     velocity_waypoint |-> r.velocity_waypoint ]
     /\ hover_position_' = IF type = hover THEN rawGoto(hover) ELSE hover_position_
     /\ speed_' = r.adapt.speed
     /\ waypoint_outside_FOV_' = r.adapt.waypoint_outside_FOV
     /\ only_yawed_' = r.adapt.only_yawed
     /\ limit_speed_close_to_goal_' = r.adapt.limit_speed_close_to_goal
     /\ velocity_time_' = clock
     /\ reached_goal_' = r.reached_goal
     /\ yaw_reached_goal_' = r.yaw_reached_goal
     /\ new_yaw_' = r.new_yaw
     /\ last_position_waypoint_' = r.position_waypoint
     /\ hist' = [histAfterTick(type, r.reached_goal, rawGoto(type)) EXCEPT
                    !.dt = r.dt,
                    !.envelope = r.adapt.envelope,
                    !.scaled = r.adapt.scaled]

\* getWaypoints in goBack: backOff, lines 141-159
TickBackOff ==
  LET goto == rawGoto(goBack)
      wp == createPoseMsg(goto, last_yaw_)
  IN /\ output_' = [output_ EXCEPT
                      !.waypoint_type = goBack,
                      !.goto_position = goto,
                      !.position_waypoint = wp,
                      !.velocity_waypoint =
                        velocityWaypoint(wp, pose_.position, new_yaw_, curr_yaw_)]
     /\ last_position_waypoint_' = wp
     /\ hist' = histAfterTick(goBack, reached_goal_, goto)
     /\ UNCHANGED <<hover_position_, speed_, waypoint_outside_FOV_, only_yawed_,
                    limit_speed_close_to_goal_, velocity_time_, reached_goal_,
                    yaw_reached_goal_, new_yaw_>>

\* the type the output carries remembered in place of the directive's
rememberedTypeAsOutput(type, output_type) == output_type
\* line 84: the type remembered for the next tick
rememberedType(type, output_type) == type

\* getWaypoints: calculateWaypoint, lines 14-89
GetWaypoints ==
  /\ ticks < MaxTicks
  /\ ticks' = ticks + 1
  /\ last_time_' = current_time_
  /\ current_time_' = clock
  /\ IF usesPathMsg(planner_info_.waypoint_type) THEN TickPathMsg ELSE TickBackOff
  /\ last_wp_type_' = rememberedType(planner_info_.waypoint_type,
                                     outputType(planner_info_.waypoint_type))
  /\ last_yaw_' = curr_yaw_
  /\ last_velocity_' = <<curr_vel_[1], curr_vel_[2]>>
  /\ UNCHANGED <<clock, vehicle_vars, planner_info_, param_vars>>

\* time passes between two control cycles
Advance ==
  /\ ticks < MaxTicks
  /\ hist.ticked
  /\ clock < ClockStart + MaxClockSteps * ClockStep
  /\ clock' = clock + ClockStep
  /\ UNCHANGED <<vehicle_vars, planner_info_, output_, memory_vars,
                 reached_goal_, limit_speed_close_to_goal_, param_vars, ticks,
                 hist>>

\* the clock is set back between two control cycles (ros::Time::now() under
\* simulated time, line 23, may read earlier than it did)
StepBack ==
  /\ ticks < MaxTicks
  /\ hist.ticked
  /\ clock > ClockStart - MaxClockSteps * ClockStep
  /\ clock' = clock - ClockStep
  /\ UNCHANGED <<vehicle_vars, planner_info_, output_, memory_vars,
                 reached_goal_, limit_speed_close_to_goal_, param_vars, ticks,
                 hist>>


(***************************************************************************)
(* Inputs.  A vehicle state is one updateState call's arguments, a         *)
(* directive one setPlannerInfo argument.                                  *)
(***************************************************************************)
Point(x, y, z) == <<x, y, z>>
VehicleState(position, yaw, goal, vel, stay) ==
  [ pose |-> [position |-> position, yaw |-> yaw], goal |-> goal, vel |-> vel,
    stay |-> stay ]
\* the goal of the mission, and the goal moved by 1.0 and by 0.05
GoalA == Point(1000, 0, 200)
GoalB == Point(1000, 100, 200)
GoalC == Point(1000, 5, 200)
\* a directive of the given type; the other fields as in BaseDirective
BaseDirective ==
  [ waypoint_type |-> direct,
    obstacle_ahead |-> FALSE,
    reach_altitude |-> TRUE,
    min_speed |-> 100,
    max_speed |-> 300,
    velocity_sigmoid_slope |-> 100,
    back_off_point |-> Point(100, 0, 200),
    back_off_start_point |-> Point(0, 0, 500),
    offboard_pose |-> Point(0, 0, 200),
    last_path_time |-> ClockStart,
    path_node_positions |-> <<>>,
    costmap_direction_e |-> 0,
    costmap_direction_z |-> 90,
    pose |-> Point(0, 0, 200) ]
Directive(type) == [BaseDirective EXCEPT !.waypoint_type = type]
\* a path leading up and to the right of the x axis
PathNodes == <<Point(300, 400, 200), Point(1000, 0, 200)>>

\* the state after construction and the first updateState and setPlannerInfo
\* (getWaypoints is called after both); the members the constructor (line 10)
\* leaves to their declarations: the flags false, the times and messages zero.
\* last_wp_type_ is read only for being hover or not (line 27), so hover and
\* direct stand for all its values; the jerk limits are those of one of the
\* given configurations
InitWith(vehicles, directives, limits) ==
  /\ clock = ClockStart
  /\ \E l \in limits :
       /\ max_jerk_limit_param_ = l.max_jerk_limit
       /\ min_jerk_limit_param_ = l.min_jerk_limit
  /\ \E v \in vehicles :
       /\ pose_ = v.pose
       /\ curr_vel_ = v.vel
       /\ goal_ = v.goal
       /\ curr_yaw_ = v.pose.yaw
       /\ z_FOV_idx_ = calculateFOV(H_FOV, v.pose.yaw)
       /\ curr_vel_magnitude_ = Norm(v.vel)
  /\ update_time_ = ClockStart
  /\ planner_info_ \in directives
  /\ output_ = [ waypoint_type |-> hover,
                 goto_position |-> Zero3,
                 adapted_goto_position |-> Zero3,
                 smoothed_goto_position |-> Zero3,
                 position_waypoint |-> createPoseMsg(Zero3, 0),
                 velocity_waypoint |-> [linear |-> Zero3, angular |-> Zero3] ]
  /\ last_time_ = 0
  /\ current_time_ = 0
  /\ velocity_time_ = 0
  /\ hover_position_ = Zero3
  /\ last_wp_type_ \in {hover, direct}
  /\ last_position_waypoint_ = createPoseMsg(Zero3, 0)
  /\ last_yaw_ = 0
  /\ last_velocity_ = <<0, 0>>
  /\ reached_goal_ = FALSE
  /\ yaw_reached_goal_ = 0
  /\ limit_speed_close_to_goal_ = FALSE
  /\ waypoint_outside_FOV_ = FALSE
  /\ only_yawed_ = FALSE
  /\ speed_ = UNIT
  /\ new_yaw_ = 0
  /\ ticks = 0
  /\ hist = [ ticked |-> FALSE,
              pushed_state |-> TRUE,
              pushed_info |-> TRUE,
              directive_type |-> planner_info_.waypoint_type,
              stay_after |-> FALSE,
              old_goal |-> goal_,
              before |-> beforeTick,
              init_type |-> last_wp_type_,
              prev_type |-> "none",
              hover_start |-> Zero3,
              hover_first |-> FALSE,
              reach_yaw |-> 0,
              dt |-> 0, envelope |-> 0, scaled |-> 0, raw |-> Zero3 ]

InitOn(vehicles, directives) ==
  InitWith(vehicles, directives, {DefaultJerkLimits})

NextOn(vehicles, directives) ==
  \/ \E v \in vehicles : UpdateState(v.pose, v.goal, v.vel, v.stay)
  \/ \E d \in directives : SetPlannerInfo(d)
  \/ GetWaypoints
  \/ Advance

(***************************************************************************)
(* Spec: the six waypoint types, with and without stay, far from the goal  *)
(* and near it.                                                            *)
(***************************************************************************)
Vehicles ==
  { VehicleState(Point(0, 0, 200), 0, GoalA, Point(100, 0, 0), FALSE),
    VehicleState(Point(0, 0, 200), 0, GoalA, Point(100, 0, 0), TRUE),
    VehicleState(Point(970, 0, 200), 90, GoalA, Zero3, FALSE) }
Directives ==
  { Directive(hover),
    Directive(costmap),
    [Directive(tryPath) EXCEPT !.path_node_positions = PathNodes],
    [Directive(tryPath) EXCEPT !.obstacle_ahead = TRUE],
    Directive(direct),
    [Directive(reachHeight) EXCEPT !.reach_altitude = FALSE],
    Directive(goBack),
    [Directive(goBack) EXCEPT !.back_off_point = Point(900, 100, 0)] }
Init == InitOn(Vehicles, Directives)
Next == NextOn(Vehicles, Directives)
Spec == Init /\ [][Next]_vars

(***************************************************************************)
(* SpecGoal: toward the goal, climbing and backing off, at 10, 1 and 0.3   *)
(* from the goal, and with the goal moved by 1.                            *)
(***************************************************************************)
GoalVehicles ==
  { VehicleState(Point(0, 0, 200), 0, GoalA, Point(100, 0, 0), FALSE),
    VehicleState(Point(900, 0, 200), 0, GoalA, Point(30, 0, 0), FALSE),
    VehicleState(Point(970, 0, 200), 90, GoalA, Point(20, 0, 0), FALSE),
    VehicleState(Point(900, 0, 200), 0, GoalB, Point(100, 0, 0), FALSE) }
GoalDirectives ==
  { Directive(direct),
    [Directive(reachHeight) EXCEPT !.reach_altitude = FALSE],
    Directive(goBack) }
InitGoal == InitOn(GoalVehicles, GoalDirectives)
NextGoal == NextOn(GoalVehicles, GoalDirectives)
SpecGoal == InitGoal /\ [][NextGoal]_vars

(***************************************************************************)
(* SpecTry: the type tryPath with and without a path, fresh and stale, far *)
(* from the goal, four units from it and near it.                          *)
(***************************************************************************)
TryVehicles ==
  { VehicleState(Point(0, 0, 200), 0, GoalA, Point(100, 0, 0), FALSE),
    VehicleState(Point(600, 0, 200), 0, GoalA, Point(100, 0, 0), FALSE),
    VehicleState(Point(900, 300, 250), 0, GoalA, Point(100, 0, 0), FALSE) }
TryDirectives ==
  { [Directive(tryPath) EXCEPT !.path_node_positions = PathNodes],
    [Directive(tryPath) EXCEPT !.path_node_positions = PathNodes,
                               !.obstacle_ahead = TRUE],
    [Directive(tryPath) EXCEPT !.path_node_positions = PathNodes,
                               !.obstacle_ahead = TRUE, !.last_path_time = 1],
    [Directive(tryPath) EXCEPT !.path_node_positions = PathNodes,
                               !.obstacle_ahead = TRUE, !.last_path_time = 0],
    [Directive(tryPath) EXCEPT !.obstacle_ahead = TRUE],
    Directive(costmap) }
InitTry == InitOn(TryVehicles, TryDirectives)
NextTry == NextOn(TryVehicles, TryDirectives)
SpecTry == InitTry /\ [][NextTry]_vars

(***************************************************************************)
(* SpecSpeed: the type direct with and without an obstacle ahead; the goal *)
(* ahead in the field of view, 12 degrees beside it, across the seam of    *)
(* the azimuth cells from it, and close by.                                *)
(***************************************************************************)
SpeedVehicles ==
  { VehicleState(Point(0, 0, 200), 0, GoalA, Point(100, 0, 0), FALSE),
    VehicleState(Point(0, 0, 200), -42, GoalA, Point(100, 0, 0), FALSE),
    VehicleState(Point(1100, 600, 200), -54, GoalA, Zero3, FALSE),
    VehicleState(Point(980, 0, 200), 0, GoalA, Point(100, 0, 0), FALSE),
    VehicleState(Point(980, 0, 200), 90, GoalA, Point(10, 0, 0), FALSE) }
SpeedDirectives ==
  { Directive(direct),
    [Directive(direct) EXCEPT !.obstacle_ahead = TRUE] }
InitSpeed == InitOn(SpeedVehicles, SpeedDirectives)
NextSpeed == NextOn(SpeedVehicles, SpeedDirectives)
SpecSpeed == InitSpeed /\ [][NextSpeed]_vars

(***************************************************************************)
(* SpecZero: the vehicle at the goal itself and straight above the         *)
(* back-off point, and away from both.                                     *)
(***************************************************************************)
ZeroVehicles ==
  { VehicleState(GoalA, 0, GoalA, Zero3, FALSE),
    VehicleState(GoalA, 90, GoalA, Point(100, 0, 0), FALSE),
    VehicleState(Point(0, 0, 200), 0, GoalA, Point(100, 0, 0), FALSE) }
ZeroDirectives ==
  { Directive(direct),
    Directive(reachHeight),
    [Directive(reachHeight) EXCEPT !.reach_altitude = FALSE],
    [Directive(tryPath) EXCEPT !.obstacle_ahead = TRUE],
    [Directive(goBack) EXCEPT !.back_off_point = Point(1000, 0, 0)] }
InitZero == InitOn(ZeroVehicles, ZeroDirectives)
NextZero == NextOn(ZeroVehicles, ZeroDirectives)
SpecZero == InitZero /\ [][NextZero]_vars

\* the goal moved: a vehicle 0.3 from the goal, and the same with the goal
\* moved by 0.05 and by 1
MoveVehicles ==
  { VehicleState(Point(970, 0, 200), 0, GoalA, Point(20, 0, 0), FALSE),
    VehicleState(Point(970, 0, 200), 0, GoalC, Point(20, 0, 0), FALSE),
    VehicleState(Point(970, 0, 200), 0, GoalB, Point(20, 0, 0), FALSE) }
MoveDirectives == { Directive(direct), Directive(goBack) }
InitMove == InitOn(MoveVehicles, MoveDirectives)
NextMove == NextOn(MoveVehicles, MoveDirectives)
SpecMove == InitMove /\ [][NextMove]_vars

\* stay: a vehicle at the origin told to stay and one at (3,0,2) that is not
StayVehicles ==
  { VehicleState(Point(0, 0, 200), 0, GoalA, Point(100, 0, 0), TRUE),
    VehicleState(Point(300, 0, 200), 0, GoalA, Point(50, 0, 0), FALSE) }
StayDirectives ==
  { Directive(direct), Directive(costmap), Directive(goBack),
    [Directive(tryPath) EXCEPT !.obstacle_ahead = TRUE] }
InitStay == InitOn(StayVehicles, StayDirectives)
NextStay == NextOn(StayVehicles, StayDirectives)
SpecStay == InitStay /\ [][NextStay]_vars

\* the clock: ticks at a later, at the same and at an earlier clock reading
ClockVehicles ==
  { VehicleState(Point(0, 0, 200), 0, GoalA, Point(100, 0, 0), FALSE),
    VehicleState(Point(300, 0, 200), 0, GoalA, Point(0, 100, 0), FALSE) }
ClockDirectives ==
  { Directive(direct), Directive(costmap), Directive(hover),
    [Directive(reachHeight) EXCEPT !.reach_altitude = FALSE],
    Directive(goBack) }
InitClock == InitOn(ClockVehicles, ClockDirectives)
NextClock == NextOn(ClockVehicles, ClockDirectives) \/ StepBack
SpecClock == InitClock /\ [][NextClock]_vars

\* the smoother: a cruising, a turning and a resting vehicle far from the
\* goal, under the shipped jerk limits, under a limit that is not scaled by
\* the speed (min_jerk_limit 0), and with both limits 0
SmoothVehicles ==
  { VehicleState(Point(0, 0, 200), 0, GoalA, Point(100, 0, 0), FALSE),
    VehicleState(Point(300, 0, 200), 0, GoalA, Point(0, 100, 0), FALSE),
    VehicleState(Point(300, 100, 200), 0, GoalA, Zero3, FALSE) }
SmoothDirectives ==
  { Directive(direct),
    [Directive(reachHeight) EXCEPT !.reach_altitude = FALSE] }
SmoothLimits ==
  { DefaultJerkLimits,
    [max_jerk_limit |-> 5 * UNIT, min_jerk_limit |-> 0],
    [max_jerk_limit |-> 0, min_jerk_limit |-> 0] }
InitSmooth == InitWith(SmoothVehicles, SmoothDirectives, SmoothLimits)
NextSmooth == NextOn(SmoothVehicles, SmoothDirectives)
SpecSmooth == InitSmooth /\ [][NextSmooth]_vars

(***************************************************************************)
(* The properties.                                                         *)
(***************************************************************************)
\* the squared distance from the vehicle to the goal
SqrdDistToGoal == SquaredNorm(Sub(goal_, pose_.position))
SqrdRadiusIn == goal_acceptance_radius_in * goal_acceptance_radius_in
SqrdRadiusOut == goal_acceptance_radius_out * goal_acceptance_radius_out
\* the steps that are calls of getWaypoints and of updateState
IsTick == ticks' = ticks + 1
IsUpdateState == ~hist.pushed_state /\ hist'.pushed_state
\* the type the last tick ran
TickType == hist.prev_type

\* C1, as the code has it: reached_goal_ becomes true only in a tick of a type
\* other than goBack at a distance below goal_acceptance_radius_in, and once
\* true it becomes false only in such a tick at a distance above
\* goal_acceptance_radius_out or in an updateState that moves the goal by more
\* than 0.1; a tick at a distance within the outer radius, setPlannerInfo and
\* any other updateState leave it true.
C1_Hysteresis ==
  [][ /\ (reached_goal_ /\ ~reached_goal_') =>
           \/ IsTick /\ usesPathMsg(planner_info_.waypoint_type)
                     /\ SqrdDistToGoal > SqrdRadiusOut
           \/ IsUpdateState /\ SquaredNorm(Sub(goal_', goal_)) > 10 * 10
      /\ (~reached_goal_ /\ reached_goal_') =>
           IsTick /\ usesPathMsg(planner_info_.waypoint_type)
                  /\ SqrdDistToGoal < SqrdRadiusIn ]_vars
\* C1 as stated: over every step, reached_goal_ stays true while the distance
\* after the step is within goal_acceptance_radius_out
C1_AsStated ==
  [][ (reached_goal_ /\ SqrdDistToGoal' <= SqrdRadiusOut') => reached_goal_' ]_vars
\* the goal still counts as reached after a tick between the two radii
C1_Witness ==
  /\ hist.ticked /\ usesPathMsg(TickType)
  /\ hist.before.reached_goal /\ reached_goal_
  /\ SqrdDistToGoal >= SqrdRadiusIn /\ SqrdDistToGoal <= SqrdRadiusOut

\* the type setPlannerInfo last supplied, downgraded or not
IsTypeOrDowngrade(output_type, type) ==
  output_type = type \/ (type = tryPath /\ output_type = direct)

\* C2, as the code has it: the output's waypoint type after a tick is hover
\* when an updateState with stay set followed the last setPlannerInfo, and
\* otherwise the type of the last setPlannerInfo, or direct in its place
\* when that type is tryPath.
C2_TypeFromDirectiveOrStay ==
  hist.ticked =>
    IF hist.stay_after
    THEN output_.waypoint_type = hover
    ELSE IsTypeOrDowngrade(output_.waypoint_type, hist.directive_type)
\* C2 as stated: the type of the last setPlannerInfo, or its downgrade
C2_AsStated ==
  hist.ticked => IsTypeOrDowngrade(output_.waypoint_type, hist.directive_type)
\* a tick after setPlannerInfo(goBack) and updateState(stay) ran hover
C2_Witness ==
  /\ hist.ticked /\ hist.stay_after
  /\ hist.directive_type = goBack /\ output_.waypoint_type = hover

\* s is a step of length len along t, to within e hundredths a coordinate
Cross(s, t) ==
  <<s[2] * t[3] - s[3] * t[2], s[3] * t[1] - s[1] * t[3], s[1] * t[2] - s[2] * t[1]>>
Dot(s, t) == s[1] * t[1] + s[2] * t[2] + s[3] * t[3]
IsStepAlong(s, t, len, e) ==
  /\ Dot(s, t) > 0
  /\ \A i \in 1..3 : Abs(Cross(s, t)[i]) <= 2 * e * (Norm(t) + 1)
  /\ Abs(SquaredNorm(s) - len * len) <= 4 * e * len

\* C3: after a tick whose type is tryPath the output's type is still
\* tryPath exactly when the path has nodes to read a direction from, the
\* path is less than 5 s old and an obstacle is ahead or the goal is more
\* than 4 away, and the raw goal is then one unit from the planner's pose
\* toward the first path node as seen from the vehicle; in every other case
\* the type is direct and the raw goal is the vehicle's position plus one
\* unit toward the goal.
C3_TryPathOrDirect ==
  (hist.ticked /\ TickType = tryPath) =>
    LET extractable == Len(planner_info_.path_node_positions) > 0
        fresh == current_time_ - planner_info_.last_path_time < 5 * MSEC
        wanted == planner_info_.obstacle_ahead \/ SqrdDistToGoal > 400 * 400
    IN IF extractable /\ fresh /\ wanted
       THEN /\ output_.waypoint_type = tryPath
            /\ IsStepAlong(Sub(hist.raw, planner_info_.pose),
                           Sub(planner_info_.path_node_positions[1], pose_.position),
                           UNIT, 4)
       ELSE /\ output_.waypoint_type = direct
            /\ IsStepAlong(Sub(hist.raw, pose_.position),
                           Sub(goal_, pose_.position), UNIT, 1)
\* a path 5.5 s old at the tick, with an obstacle ahead, is not followed
C3_Witness ==
  /\ hist.ticked /\ TickType = tryPath
  /\ Len(planner_info_.path_node_positions) > 0
  /\ planner_info_.obstacle_ahead
  /\ current_time_ - planner_info_.last_path_time = 5 * MSEC + ClockStep
  /\ output_.waypoint_type = direct
  /\ pose_.position = Point(900, 300, 250)
  /\ hist.raw # pose_.position

\* the distance flown between the last updateState and the last tick
FlownSinceUpdate == ((current_time_ - update_time_) * curr_vel_magnitude_) \div MSEC
\* the bound of the directive: max_speed, or min_speed before an obstacle
DirectiveBound ==
  IF planner_info_.obstacle_ahead THEN planner_info_.min_speed
  ELSE planner_info_.max_speed

\* C4, as the code has it: after adaptSpeed the speed is at most the bound of
\* the directive (max_speed, or min_speed with an obstacle ahead) once it is
\* capped and ramped, it is never negative, and in the end it is at most the
\* larger of that bound plus the distance flown since updateState and of
\* min_speed_close_to_goal; with the close-to-goal limit on it is at least
\* min_speed_close_to_goal.  min_speed is no lower bound and max_speed no
\* upper bound.
C4_SpeedBounds ==
  (hist.ticked /\ usesPathMsg(TickType)) =>
    /\ hist.envelope >= 0 /\ hist.envelope <= DirectiveBound
    /\ hist.scaled >= 0 /\ hist.scaled <= hist.envelope
    /\ speed_ >= 0
    /\ speed_ <= Max(DirectiveBound + FlownSinceUpdate, min_speed_close_to_goal)
    /\ limit_speed_close_to_goal_ => speed_ >= min_speed_close_to_goal
\* C4 as stated: the speed within [min_speed, max_speed]
C4_AsStated ==
  (hist.ticked /\ usesPathMsg(TickType)) =>
    /\ speed_ >= planner_info_.min_speed
    /\ speed_ <= planner_info_.max_speed
\* the speed above max_speed after delay compensation
C4_Witness ==
  /\ hist.ticked /\ usesPathMsg(TickType)
  /\ ~planner_info_.obstacle_ahead
  /\ hist.envelope = planner_info_.max_speed
  /\ FlownSinceUpdate > 0
  /\ speed_ = planner_info_.max_speed + FlownSinceUpdate

\* C5, as the code has it: after a tick of a type other than goBack that
\* leaves reached_goal_ true, the position waypoint is the goal itself with
\* the yaw the vehicle had at the tick in which reached_goal_ last turned
\* from false to true, whatever the type and reach_altitude are.
C5_GoalPinned ==
  (hist.ticked /\ usesPathMsg(TickType) /\ reached_goal_) =>
    output_.position_waypoint = [position |-> goal_, yaw |-> hist.reach_yaw]
\* C5 as stated: after every tick that leaves reached_goal_ true
C5_AsStated ==
  (hist.ticked /\ reached_goal_) =>
    output_.position_waypoint = [position |-> goal_, yaw |-> hist.reach_yaw]
\* a later tick between the radii, at another yaw, climbing to altitude
C5_Witness ==
  /\ hist.ticked /\ TickType = reachHeight /\ ~planner_info_.reach_altitude
  /\ hist.before.reached_goal /\ reached_goal_
  /\ pose_.yaw # hist.reach_yaw
  /\ output_.position_waypoint.position = goal_

\* the present run of hover ticks began with the first tick of all, with
\* last_wp_type_ still hover from its declaration
HoverRunUncaptured == hist.hover_first /\ hist.init_type = hover

\* C6, as the code has it: after a tick of type hover the raw goal, and the
\* stored hover position, is the position the vehicle had at the first tick
\* of the present unbroken run of hover ticks, however the pose has moved
\* since, unless that run began with the very first tick while last_wp_type_
\* was hover from the start; the output's goto position is that position
\* too when reach_altitude is set.
C6_HoverFrozen ==
  (hist.ticked /\ TickType = hover /\ ~HoverRunUncaptured) =>
    /\ hist.raw = hist.hover_start
    /\ hover_position_ = hist.hover_start
    /\ planner_info_.reach_altitude => output_.goto_position = hist.hover_start
\* C6 as stated: in every hover tick, the very first one included
C6_AsStated ==
  (hist.ticked /\ TickType = hover) => hist.raw = hist.hover_start
\* the second of two hover ticks, the vehicle having moved in between
C6_Witness ==
  /\ hist.ticked /\ TickType = hover /\ ticks = 2
  /\ hist.hover_first /\ hist.init_type # hover
  /\ hist.before.last_wp_type = hover
  /\ pose_.position # hist.hover_start
  /\ output_.goto_position = hist.hover_start

\* the point half a unit above the vehicle over the offboard pose
ClimbPoint ==
  <<planner_info_.offboard_pose[1], planner_info_.offboard_pose[2],
    pose_.position[3] + UNIT \div 2>>
\* p is min_speed from the vehicle toward ClimbPoint
IsClimbStep(p) ==
  IsStepAlong(Sub(p, pose_.position), Sub(ClimbPoint, pose_.position),
              planner_info_.min_speed, 1 + planner_info_.min_speed \div UNIT)

\* C7, as the code has it: after a tick of a type other than goBack with
\* reach_altitude false, the goto, adapted and smoothed positions of the
\* output are all the point min_speed from the vehicle toward the point half
\* a unit above it over the offboard pose, nothing of the speed-adapted or
\* jerk-limited point remaining, and the position waypoint is that point
\* unless the goal counts as reached after the tick: then the smoothed
\* position and the position waypoint are the goal.
C7_AltitudeFirst ==
  (hist.ticked /\ usesPathMsg(TickType) /\ ~planner_info_.reach_altitude) =>
    /\ IsClimbStep(output_.goto_position)
    /\ output_.adapted_goto_position = output_.goto_position
    /\ output_.smoothed_goto_position = output_.position_waypoint.position
    /\ output_.position_waypoint.position =
         IF reached_goal_ THEN goal_ ELSE output_.goto_position
\* C7 as stated: the position waypoint is the climb step in every such tick
C7_AsStated ==
  (hist.ticked /\ usesPathMsg(TickType) /\ ~planner_info_.reach_altitude) =>
    IsClimbStep(output_.position_waypoint.position)
\* a climb from (9,0,2) back toward the offboard pose at the origin
C7_Witness ==
  /\ hist.ticked /\ TickType = reachHeight /\ ~planner_info_.reach_altitude
  /\ ~reached_goal_
  /\ pose_.position = Point(900, 0, 200)
  /\ output_.position_waypoint.position = output_.goto_position
  /\ output_.goto_position[1] < 900 /\ output_.goto_position[3] > 200
  /\ output_.goto_position # hist.raw

\* the vehicle's horizontal offset from the back-off point
RetreatDirection ==
  <<pose_.position[1] - planner_info_.back_off_point[1],
    pose_.position[2] - planner_info_.back_off_point[2], 0>>

\* C8: after a tick of type goBack the goto position and the position
\* waypoint are the same point; its altitude is that of
\* back_off_start_point, and horizontally it lies half a unit from the
\* vehicle, straight away from the back-off point.  From (0,0,2), backing
\* off from (1,0,2) with the start altitude 5, it is (-0.5,0,5).
C8_BackOff ==
  (hist.ticked /\ TickType = goBack) =>
    LET g == output_.goto_position
    IN /\ output_.position_waypoint.position = g
       /\ g[3] = planner_info_.back_off_start_point[3]
       /\ IsStepAlong(<<g[1] - pose_.position[1], g[2] - pose_.position[2], 0>>,
                      RetreatDirection, UNIT \div 2, 2)
       /\ ( /\ pose_.position = Point(0, 0, 200)
            /\ planner_info_.back_off_point = Point(100, 0, 200)
            /\ planner_info_.back_off_start_point[3] = 500 )
          => g = Point(-50, 0, 500)
\* backing off from a point well below and beside the vehicle
C8_Witness ==
  /\ hist.ticked /\ TickType = goBack
  /\ pose_.position = Point(970, 0, 200)
  /\ planner_info_.back_off_point = Point(900, 100, 0)
  /\ output_.position_waypoint.position = output_.goto_position
  /\ output_.goto_position[3] = 500
  /\ output_.goto_position[1] > 970 /\ output_.goto_position[2] < 0

\* C9: a tick of type goBack leaves the speed, reached_goal_,
\* limit_speed_close_to_goal_, the yaw-only flag and the time of the last
\* speed update as they were before the tick, and with them the adapted and
\* smoothed positions of the output.
C9_BackOffFrame ==
  (hist.ticked /\ TickType = goBack) =>
    /\ speed_ = hist.before.speed
    /\ reached_goal_ = hist.before.reached_goal
    /\ limit_speed_close_to_goal_ = hist.before.limit_speed_close_to_goal
    /\ only_yawed_ = hist.before.only_yawed
    /\ velocity_time_ = hist.before.velocity_time
    /\ output_.adapted_goto_position = hist.before.output.adapted_goto_position
    /\ output_.smoothed_goto_position = hist.before.output.smoothed_goto_position
\* a goBack tick half a second after a tick that reached the goal, far from
\* the goal by now and moving
C9_Witness ==
  /\ hist.ticked /\ TickType = goBack /\ ticks = 2
  /\ current_time_ > velocity_time_ /\ velocity_time_ = ClockStart
  /\ reached_goal_ /\ SqrdDistToGoal > SqrdRadiusOut
  /\ curr_vel_magnitude_ > 0

\* the azimuth cell of the raw goal of the last tick, and whether the
\* field-of-view slowdown applied to it
CandidateCell == candidateIndex(hist.raw, pose_.position)
SlowdownCase ==
  /\ hist.ticked /\ usesPathMsg(TickType)
  /\ CandidateCell \notin z_FOV_idx_
  /\ planner_info_.reach_altitude /\ ~hist.before.reached_goal
\* the angle in degrees from the candidate cell to the nearest visible cell,
\* the short way round the circle of azimuth cells
AngleAround(cell, cells) ==
  LET around(c) == Min(Abs(c - cell), GRID_LENGTH_Z - Abs(c - cell))
      ds == {around(c) : c \in cells}
  IN ALPHA_RES * (CHOOSE d \in ds : \A e \in ds : d <= e)

\* C10: when the slowdown applies, the speed after it is the ramped speed
\* times 1 - min(d, 30)/30 with d the angle, the short way round, from the
\* candidate cell to the nearest visible cell, and the yaw-only flag is set
\* exactly when that speed is below 0.01.  The code measures d as the plain
\* difference of cell numbers, so a candidate just across the seam between
\* the last cell and cell 0 counts as far away: the statement fails there.
C10_AsStated ==
  SlowdownCase =>
    LET d == AngleAround(CandidateCell, z_FOV_idx_)
    IN /\ hist.scaled = (hist.envelope * (30 - Min(d, 30))) \div 30
       /\ only_yawed_ = (hist.scaled < 1)
\* what holds instead: the same with the plain difference of cell numbers
C10_PlainDifference ==
  SlowdownCase =>
    LET ds == {Abs(c - CandidateCell) : c \in z_FOV_idx_}
        d == ALPHA_RES * (CHOOSE x \in ds : \A e \in ds : x <= e)
    IN /\ hist.scaled = (hist.envelope * (30 - Min(d, 30))) \div 30
       /\ only_yawed_ = (hist.scaled < 1)
\* the goal 12 degrees outside the field of view across the seam: the speed
\* is scaled to 0 and the vehicle only yaws
C10_Witness ==
  /\ SlowdownCase
  /\ AngleAround(CandidateCell, z_FOV_idx_) = 12
  /\ hist.envelope > 0 /\ hist.scaled = 0 /\ only_yawed_

\* the horizontal offsets to the goal against the two distances that scale
\* with the measured speed
OffsetToGoal == CwiseAbs(Sub(goal_, pose_.position))
StartDistance ==
  (factor_close_to_goal_start_speed_limitation * curr_vel_magnitude_) \div UNIT
StopDistance ==
  (factor_close_to_goal_stop_speed_limitation * curr_vel_magnitude_) \div UNIT
InsideStart == OffsetToGoal[1] < StartDistance /\ OffsetToGoal[2] < StartDistance
OutsideStop == OffsetToGoal[1] > StopDistance \/ OffsetToGoal[2] > StopDistance

\* C11, as the code has it: limit_speed_close_to_goal_ turns true only in a
\* tick of a type other than goBack with both horizontal offsets to the goal
\* below the start factor times the measured speed; it turns false only in
\* such a tick with one of the offsets above the stop factor times the
\* speed, or in an updateState that moves the goal by more than 0.1; a tick
\* in which neither condition holds leaves it as it was.
C11_LimitHysteresis ==
  [][ /\ (~limit_speed_close_to_goal_ /\ limit_speed_close_to_goal_') =>
           IsTick /\ usesPathMsg(planner_info_.waypoint_type) /\ InsideStart
      /\ (limit_speed_close_to_goal_ /\ ~limit_speed_close_to_goal_') =>
           \/ IsTick /\ usesPathMsg(planner_info_.waypoint_type) /\ OutsideStop
           \/ IsUpdateState /\ SquaredNorm(Sub(goal_', goal_)) > 10 * 10
      /\ (IsTick /\ ~InsideStart /\ ~OutsideStop) =>
           limit_speed_close_to_goal_' = limit_speed_close_to_goal_ ]_vars
\* C11 as stated: the flag turns false only in a tick beyond the stop distance
C11_AsStated ==
  [][ (limit_speed_close_to_goal_ /\ ~limit_speed_close_to_goal_') =>
        (IsTick /\ OutsideStop) ]_vars
\* the limit still on after a tick between the start and the stop distance
C11_Witness ==
  /\ hist.ticked /\ usesPathMsg(TickType)
  /\ hist.before.limit_speed_close_to_goal /\ limit_speed_close_to_goal_
  /\ ~InsideStart /\ ~OutsideStop /\ curr_vel_magnitude_ > 0

\* every coordinate of the point is a number
IsNumbers(p) == \A i \in 1..3 : p[i] \in Int

SmootherSetpointKept ==
  /\ hist.ticked
  /\ usesPathMsg(TickType)
  /\ planner_info_.reach_altitude
  /\ ~reached_goal_
\* the bound of the tick: max_jerk_limit, times the horizontal speed and at
\* least min_jerk_limit when min_jerk_limit is above 0.001
ComputedMaxJerk ==
  LET speed_xy == ISqrt(curr_vel_[1] * curr_vel_[1] + curr_vel_[2] * curr_vel_[2])
  IN IF min_jerk_limit_param_ >= 1
     THEN Max((max_jerk_limit_param_ * speed_xy) \div UNIT, min_jerk_limit_param_)
     ELSE max_jerk_limit_param_
\* the jerk the setpoint implies, times dt^3: the setpoint less the point the
\* present acceleration leads to from the last waypoint within dt
ImpliedJerkStep ==
  LET sp == output_.smoothed_goto_position
      l == hist.before.output.position_waypoint.position
      lv == hist.before.last_velocity
  IN <<sp[1] - l[1] - ((2 * curr_vel_[1] - lv[1]) * hist.dt) \div MSEC,
       sp[2] - l[2] - ((2 * curr_vel_[2] - lv[2]) * hist.dt) \div MSEC>>
\* the implied jerk is within the bound, to one unit of the resolution
JerkWithin(max_jerk) ==
  LET n == ImpliedJerkStep
      allowed == (((((max_jerk * hist.dt) \div MSEC) * hist.dt) \div MSEC)
                  * hist.dt) \div MSEC
  IN ISqrt(n[1] * n[1] + n[2] * n[2]) <= allowed + 1

\* C13, as the code has it: the horizontal setpoint of smoothWaypoint implies
\* a jerk no larger than the computed bound max_jerk provided that bound is
\* above 0.001; with a bound of 0.001 or less the smoother does not limit
\* anything and the setpoint is the speed-adapted point
C13_JerkBounded ==
  SmootherSetpointKept =>
    IF ComputedMaxJerk >= 1
    THEN JerkWithin(ComputedMaxJerk)
    ELSE output_.smoothed_goto_position = output_.adapted_goto_position
\* C13 as stated: the implied jerk is within the computed bound whatever the
\* limits are
C13_AsStated == SmootherSetpointKept => JerkWithin(ComputedMaxJerk)
\* a tick in which the smoother clamped the jerk to a bound above 0.001
C13_Witness ==
  /\ SmootherSetpointKept
  /\ ComputedMaxJerk >= 1
  /\ output_.smoothed_goto_position # output_.adapted_goto_position
  /\ ticks = 2

\* the tick ran getPathMsg, which takes dt from the two clock readings
IsPathMsgTick == hist.ticked /\ usesPathMsg(TickType)

\* C14: the dt of every tick that computes one is strictly positive: the
\* difference of the tick's clock reading and the one before when that is
\* positive, the default 0.004 s otherwise, the clock stepping forward, not
\* at all or backwards between the ticks, and in the first tick
C14_PositiveDt ==
  IsPathMsgTick =>
    /\ hist.dt > 0
    /\ current_time_ - last_time_ > 0 => hist.dt = current_time_ - last_time_
    /\ current_time_ - last_time_ <= 0 => hist.dt = DEFAULT_DT
\* a tick after the clock was set back in which the smoother ran
C14_Witness ==
  /\ IsPathMsgTick
  /\ planner_info_.reach_altitude
  /\ current_time_ < last_time_
  /\ hist.dt = DEFAULT_DT

\* C15: after every getWaypoints call, of whatever type, goBack included, the
\* linear velocity command is the final position waypoint less the vehicle
\* position, coordinate by coordinate and not divided by dt, and the roll and
\* pitch rates are zero
C15_VelocityIsOffset ==
  hist.ticked =>
    /\ \A i \in 1..3 :
         output_.velocity_waypoint.linear[i]
           = output_.position_waypoint.position[i] - pose_.position[i]
    /\ output_.velocity_waypoint.angular[1] = 0
    /\ output_.velocity_waypoint.angular[2] = 0
\* a goBack tick with a command that is not zero
C15_Witness ==
  /\ hist.ticked
  /\ TickType = goBack
  /\ output_.velocity_waypoint.linear # Zero3
  /\ output_.position_waypoint.position # pose_.position

\* C16: after every getWaypoints call the memory of the tick agrees with it:
\* the last position waypoint is the one just returned, the last yaw and the
\* last velocity are the vehicle's yaw and horizontal velocity of the tick,
\* and the last waypoint type is the type the tick was asked to run, which
\* differs from the output's type only as tryPath from direct
C16_MemoryOfTick ==
  hist.ticked =>
    /\ last_position_waypoint_ = output_.position_waypoint
    /\ last_yaw_ = curr_yaw_
    /\ last_velocity_ = <<curr_vel_[1], curr_vel_[2]>>
    /\ last_wp_type_ = planner_info_.waypoint_type
    /\ last_wp_type_ # output_.waypoint_type =>
         last_wp_type_ = tryPath /\ output_.waypoint_type = direct
\* a second tick, asked for tryPath and run as direct, remembered as tryPath
C16_Witness ==
  /\ hist.ticked
  /\ ticks = 2
  /\ last_wp_type_ = tryPath
  /\ output_.waypoint_type = direct
  /\ last_velocity_ # <<0, 0>>

\* the goal an updateState step brings is more than 0.1 from the stored one
GoalMovedFar ==
  (goal_'[1] - goal_[1]) * (goal_'[1] - goal_[1])
  + (goal_'[2] - goal_[2]) * (goal_'[2] - goal_[2])
  + (goal_'[3] - goal_[3]) * (goal_'[3] - goal_[3]) > 10 * 10

\* C17: updateState with a goal more than 0.1 from the stored goal leaves
\* reached_goal and limit_speed_close_to_goal both false; with a goal within
\* 0.1 it leaves both as they were
C17_ResetOnGoalChange ==
  [][IsUpdateState =>
       IF GoalMovedFar
       THEN ~reached_goal_' /\ ~limit_speed_close_to_goal_'
       ELSE /\ reached_goal_' = reached_goal_
            /\ limit_speed_close_to_goal_' = limit_speed_close_to_goal_]_vars
\* an updateState that moved the goal by 0.05 and left both flags set
C17_Witness ==
  /\ hist.pushed_state
  /\ ticks >= 1
  /\ hist.old_goal = GoalA
  /\ goal_ = GoalC
  /\ reached_goal_
  /\ limit_speed_close_to_goal_
\* an updateState that moved the goal by 1 after a tick in which both flags
\* were set, and left both reset
C17_WitnessReset ==
  /\ hist.pushed_state
  /\ ticks >= 1
  /\ hist.old_goal = GoalA
  /\ goal_ = GoalB
  /\ hist.before.output.position_waypoint.position # GoalA
  /\ output_.position_waypoint.position = GoalA
  /\ ~reached_goal_
  /\ ~limit_speed_close_to_goal_

\* C18: the type a tick runs is hover when an updateState with stay set was
\* called after the last setPlannerInfo, and the type of the last
\* setPlannerInfo when no such updateState came after it, whatever stay was
\* in the updateState calls before it
C18_LastCallDecides ==
  hist.ticked =>
    /\ hist.stay_after => TickType = hover /\ output_.waypoint_type = hover
    /\ ~hist.stay_after => TickType = hist.directive_type
\* the second tick ran direct for the vehicle told to stay: its updateState
\* came after the first tick, which was the other vehicle's, and before the
\* setPlannerInfo
C18_Witness ==
  /\ hist.ticked
  /\ ticks = 2
  /\ pose_.position = Point(0, 0, 200)
  /\ ~hist.stay_after
  /\ hist.directive_type = direct
  /\ TickType = direct
  /\ hist.before.last_velocity = <<50, 0>>

\* C19 as stated: after a tick that ran adaptSpeed the yaw-only flag is true
\* only if in that tick the candidate direction was outside the visible
\* cells and the speed scaled for it was below 0.01; it is false after a
\* tick whose candidate direction is inside the visible cells
C19_AsStated ==
  IsPathMsgTick /\ only_yawed_ =>
    CandidateCell \notin z_FOV_idx_ /\ hist.scaled < 1
\* what lines 272-296 do: the flag is written only in a tick that scales the
\* speed for a candidate outside the visible cells (altitude reached, goal
\* not reached), and keeps the value of the tick before in any other tick
C19_Latched ==
  IsPathMsgTick =>
    only_yawed_ = IF SlowdownCase THEN hist.scaled < 1
                  ELSE hist.before.only_yawed
\* the flag still set after a tick toward a goal straight ahead, at the
\* speed of the envelope
C19_Witness ==
  /\ IsPathMsgTick
  /\ only_yawed_
  /\ hist.before.only_yawed
  /\ CandidateCell \in z_FOV_idx_
  /\ pose_.position = Point(0, 0, 200)
  /\ curr_yaw_ = 0
  /\ hist.scaled >= UNIT

====
